---- MODULE Spec2Model ----
(***************************************************************************)
(* Model of the Solana memory viewer component                             *)
(* (src/src/components/memory-viewer.tsx, multi-account variant, and the   *)
(* single-account variant in src/unnamed/part_000).                        *)
(*                                                                         *)
(* The component state is the six useState cells.  Every handler is one    *)
(* action.  Strings the code parses or builds (region names, the legend    *)
(* view, the text of an input field, the two-digit hex cell text) are      *)
(* sequences of one-character strings, so that split / includes /          *)
(* startsWith / parseInt / toString are computed as the code computes      *)
(* them.  Numbers above 2^31 (section addresses, 64-bit encodings) are     *)
(* kept as little-endian digit sequences.                                  *)
(***************************************************************************)
EXTENDS Integers, Sequences, FiniteSets

VARIABLES selectedSection, focusedRegion, accountDataSizes,
          instructionDataSize, numberOfAccounts, selectedView, typedCount, encoded

vars == <<selectedSection, focusedRegion, accountDataSizes,
          instructionDataSize, numberOfAccounts, selectedView, typedCount, encoded>>

(***************************************************************************)
(* Bounds of the model.                                                    *)
(***************************************************************************)
\* Legend views "Account k" and size edits are exercised for units 1..MaxUnit.
MaxUnit == 2

(***************************************************************************)
(* JavaScript values.                                                      *)
(***************************************************************************)
\* null and undefined: one-element sequences that no character string equals
\* (a character string holds one-character elements only).
Null == <<"null">>
Undefined == <<"undefined">>

Digits == <<"0", "1", "2", "3", "4", "5", "6", "7", "8", "9">>
HexDigits == <<"0", "1", "2", "3", "4", "5", "6", "7", "8", "9",
               "a", "b", "c", "d", "e", "f">>

IsDigit(c) == \E d \in 1..Len(Digits) : Digits[d] = c
DigitVal(c) == (CHOOSE d \in 1..Len(Digits) : Digits[d] = c) - 1

\* Number.prototype.toString() of a non-negative integer.
RECURSIVE ToString(_)
ToString(n) ==
  IF n < 10 THEN <<Digits[n + 1]>>
  ELSE ToString(n \div 10) \o <<Digits[(n % 10) + 1]>>

\* String.prototype.startsWith
StartsWith(s, p) == Len(s) >= Len(p) /\ SubSeq(s, 1, Len(p)) = p

\* String.prototype.includes
Includes(s, p) ==
  \E i \in 1..(Len(s) - Len(p) + 1) : SubSeq(s, i, i + Len(p) - 1) = p

\* String.prototype.split on a one-character separator.
RECURSIVE SplitFrom(_, _, _, _)
SplitFrom(s, sep, i, cur) ==
  IF i > Len(s) THEN <<cur>>
  ELSE IF s[i] = sep THEN <<cur>> \o SplitFrom(s, sep, i + 1, <<>>)
  ELSE SplitFrom(s, sep, i + 1, Append(cur, s[i]))

Split(s, sep) == SplitFrom(s, sep, 1, <<>>)

\* Array index of JavaScript: 0-based, undefined outside the array.
At(arr, i) == IF i >= 0 /\ i < Len(arr) THEN arr[i + 1] ELSE Undefined

\* String.prototype.replace(pattern, replacement): the first occurrence only.
Replace(s, pat, rep) ==
  IF Includes(s, pat)
  THEN LET i == CHOOSE k \in 1..(Len(s) - Len(pat) + 1) :
                  /\ SubSeq(s, k, k + Len(pat) - 1) = pat
                  /\ \A j \in 1..(k - 1) : SubSeq(s, j, j + Len(pat) - 1) # pat
       IN SubSeq(s, 1, i - 1) \o rep \o SubSeq(s, i + Len(pat), Len(s))
  ELSE s

\* parseInt(text, 10): leading blanks, an optional sign, then the longest run
\* of decimal digits; NaN when there is no digit.
RECURSIVE SkipBlanks(_, _)
SkipBlanks(s, i) ==
  IF i <= Len(s) /\ s[i] = " " THEN SkipBlanks(s, i + 1) ELSE i

RECURSIVE ParseDigits(_, _, _)
ParseDigits(s, i, acc) ==
  IF i <= Len(s) /\ IsDigit(s[i])
  THEN ParseDigits(s, i + 1, acc * 10 + DigitVal(s[i]))
  ELSE acc

parseInt(s) ==
  LET b == SkipBlanks(s, 1)
      signed == b <= Len(s) /\ s[b] \in {"-", "+"}
      neg == b <= Len(s) /\ s[b] = "-"
      d == IF signed THEN b + 1 ELSE b
  IN IF d <= Len(s) /\ IsDigit(s[d])
     THEN [isNaN |-> FALSE,
           value |-> IF neg THEN 0 - ParseDigits(s, d, 0) ELSE ParseDigits(s, d, 0)]
     ELSE [isNaN |-> TRUE, value |-> 0]

(***************************************************************************)
(* The region catalog.                                                     *)
(***************************************************************************)
N_NumberOfAccounts == <<"N", "u", "m", "b", "e", "r", " ", "o", "f", " ", "a", "c", "c", "o", "u", "n", "t", "s">>
N_InstructionDataSize == <<"I", "n", "s", "t", "r", "u", "c", "t", "i", "o", "n", " ", "d", "a", "t", "a", " ", "s", "i", "z", "e">>
N_InstructionData == <<"I", "n", "s", "t", "r", "u", "c", "t", "i", "o", "n", " ", "d", "a", "t", "a">>
N_ProgramID == <<"P", "r", "o", "g", "r", "a", "m", " ", "I", "D">>
N_AccountFlags == <<"A", "c", "c", "o", "u", "n", "t", " ", "F", "l", "a", "g", "s">>
N_Padding1 == <<"P", "a", "d", "d", "i", "n", "g", " ", "1">>
N_PublicKeys == <<"P", "u", "b", "l", "i", "c", " ", "k", "e", "y", "s">>
N_Lamports == <<"L", "a", "m", "p", "o", "r", "t", "s">>
N_AccountDataSize == <<"A", "c", "c", "o", "u", "n", "t", " ", "d", "a", "t", "a", " ", "s", "i", "z", "e">>
N_AccountData == <<"A", "c", "c", "o", "u", "n", "t", " ", "d", "a", "t", "a">>
N_ReallocPadding == <<"R", "e", "a", "l", "l", "o", "c", " ", "p", "a", "d", "d", "i", "n", "g">>
N_RentEpoch == <<"R", "e", "n", "t", " ", "e", "p", "o", "c", "h">>
S_Account == <<"A", "c", "c", "o", "u", "n", "t">>
S_AccountSp == <<"A", "c", "c", "o", "u", "n", "t", " ">>
S_Program == <<"P", "r", "o", "g", "r", "a", "m">>

\* Addresses are three base-65536 digits, lowest first: 0x100000000 = <<0, 0, 1>>.
MEMORY_SECTIONS == <<
  [start |-> <<0, 0, 1>>, end |-> <<65535, 65535, 1>>, name |-> "Program code"],
  [start |-> <<0, 0, 2>>, end |-> <<65535, 65535, 2>>, name |-> "Stack data"],
  [start |-> <<0, 0, 3>>, end |-> <<65535, 65535, 3>>, name |-> "Heap data"],
  [start |-> <<0, 0, 4>>, end |-> <<65535, 65535, 4>>, name |-> "Program input parameters"] >>

PROGRAM_REGIONS == <<
  [name |-> N_NumberOfAccounts, size |-> 8, color |-> "bg-blue-400",
   isDynamic |-> FALSE, isPadding |-> FALSE, subRegions |-> <<>>],
  [name |-> N_InstructionDataSize, size |-> 8, color |-> "bg-cyan-400",
   isDynamic |-> FALSE, isPadding |-> FALSE, subRegions |-> <<>>],
  [name |-> N_InstructionData, size |-> 32, color |-> "bg-lime-400",
   isDynamic |-> TRUE, isPadding |-> FALSE, subRegions |-> <<>>],
  [name |-> N_ProgramID, size |-> 32, color |-> "bg-amber-400",
   isDynamic |-> FALSE, isPadding |-> FALSE, subRegions |-> <<>>] >>

ACCOUNT_REGIONS == <<
  [name |-> N_AccountFlags, size |-> 4, color |-> "bg-green-400",
   isDynamic |-> FALSE, isPadding |-> FALSE,
   subRegions |-> << [name |-> "Is Duplicate", size |-> 1, color |-> "bg-green-300"],
                     [name |-> "Is Signer", size |-> 1, color |-> "bg-green-400"],
                     [name |-> "Is Writable", size |-> 1, color |-> "bg-green-500"],
                     [name |-> "Is Executable", size |-> 1, color |-> "bg-green-600"] >>],
  [name |-> N_Padding1, size |-> 4, color |-> "bg-gray-400",
   isDynamic |-> FALSE, isPadding |-> TRUE, subRegions |-> <<>>],
  [name |-> N_PublicKeys, size |-> 64, color |-> "bg-purple-400",
   isDynamic |-> FALSE, isPadding |-> FALSE,
   subRegions |-> << [name |-> "Account Pub Key", size |-> 32, color |-> "bg-indigo-400"],
                     [name |-> "Account Owner Pub Key", size |-> 32, color |-> "bg-violet-400"] >>],
  [name |-> N_Lamports, size |-> 8, color |-> "bg-red-400",
   isDynamic |-> FALSE, isPadding |-> FALSE, subRegions |-> <<>>],
  [name |-> N_AccountDataSize, size |-> 8, color |-> "bg-indigo-400",
   isDynamic |-> FALSE, isPadding |-> FALSE, subRegions |-> <<>>],
  [name |-> N_AccountData, size |-> 32, color |-> "bg-pink-400",
   isDynamic |-> TRUE, isPadding |-> FALSE, subRegions |-> <<>>],
  [name |-> N_ReallocPadding, size |-> 10240, color |-> "bg-gray-500",
   isDynamic |-> FALSE, isPadding |-> TRUE, subRegions |-> <<>>],
  [name |-> N_RentEpoch, size |-> 8, color |-> "bg-teal-400",
   isDynamic |-> FALSE, isPadding |-> FALSE, subRegions |-> <<>>] >>

COLS == 16
BYTES_PER_ROW == 16
MIN_ROWS == 16

PIP == "Program input parameters"

(***************************************************************************)
(* The layout: programInputRegions and what is derived from it.            *)
(***************************************************************************)
\* accountDataSizes[index] || 32: undefined (no such entry) and 0 are falsy.
AccountDataSizeOr32(sizes, index) ==
  IF index >= 0 /\ index < Len(sizes) /\ sizes[index + 1] # 0
  THEN sizes[index + 1] ELSE 32

\* `Account ${index + 1}: ${region.name}`
AccountRegionName(index, name) ==
  S_AccountSp \o ToString(index + 1) \o <<":", " ">> \o name

\* Array(numberOfAccounts).fill(null).flatMap((_, index) => ACCOUNT_REGIONS.map(...))
AccountRegionsOf(n, sizes) ==
  [i \in 1..(n * Len(ACCOUNT_REGIONS)) |->
     LET index == (i - 1) \div Len(ACCOUNT_REGIONS)
         region == ACCOUNT_REGIONS[((i - 1) % Len(ACCOUNT_REGIONS)) + 1]
     IN [region EXCEPT
           !.name = AccountRegionName(index, region.name),
           !.size = IF region.name = N_AccountData
                    THEN AccountDataSizeOr32(sizes, index)
                    ELSE region.size]]

\* PROGRAM_REGIONS.slice(1).map(...)
TrailingRegionsOf(instrSize) ==
  [i \in 1..(Len(PROGRAM_REGIONS) - 1) |->
     LET region == PROGRAM_REGIONS[i + 1]
     IN IF region.name = N_InstructionData
        THEN [region EXCEPT !.size = instrSize]
        ELSE region]

\* ProgramInputRegionsOf with the unit blocks appended after the header regions.
ProgramInputRegionsOfAppended(n, sizes, instrSize) ==
  SubSeq(PROGRAM_REGIONS, 1, 1) \o TrailingRegionsOf(instrSize) \o AccountRegionsOf(n, sizes)

ProgramInputRegionsOf(n, sizes, instrSize) ==
  SubSeq(PROGRAM_REGIONS, 1, 1) \o AccountRegionsOf(n, sizes) \o TrailingRegionsOf(instrSize)

programInputRegions ==
  ProgramInputRegionsOf(numberOfAccounts, accountDataSizes, instructionDataSize)

\* The single-account variant: one flat list, the unit's regions unprefixed.
PROGRAM_INPUT_REGIONS == <<
  [name |-> N_NumberOfAccounts, size |-> 8, color |-> "bg-blue-400",
   isDynamic |-> FALSE, isPadding |-> FALSE, subRegions |-> <<>>],
  [name |-> N_AccountFlags, size |-> 4, color |-> "bg-green-400",
   isDynamic |-> FALSE, isPadding |-> FALSE,
   subRegions |-> << [name |-> "Is Signer", size |-> 1, color |-> "bg-green-300"],
                     [name |-> "Is Writable", size |-> 1, color |-> "bg-green-400"],
                     [name |-> "Is Executable", size |-> 1, color |-> "bg-green-500"],
                     [name |-> "Is Duplicate", size |-> 1, color |-> "bg-green-600"] >>],
  [name |-> N_Padding1, size |-> 4, color |-> "bg-gray-400",
   isDynamic |-> FALSE, isPadding |-> TRUE, subRegions |-> <<>>],
  [name |-> N_PublicKeys, size |-> 64, color |-> "bg-purple-400",
   isDynamic |-> FALSE, isPadding |-> FALSE,
   subRegions |-> << [name |-> "Account Pub Key", size |-> 32, color |-> "bg-indigo-400"],
                     [name |-> "Account Owner Pub Key", size |-> 32, color |-> "bg-violet-400"] >>],
  [name |-> N_Lamports, size |-> 8, color |-> "bg-red-400",
   isDynamic |-> FALSE, isPadding |-> FALSE, subRegions |-> <<>>],
  [name |-> N_AccountDataSize, size |-> 8, color |-> "bg-indigo-400",
   isDynamic |-> FALSE, isPadding |-> FALSE, subRegions |-> <<>>],
  [name |-> N_AccountData, size |-> 32, color |-> "bg-pink-400",
   isDynamic |-> TRUE, isPadding |-> FALSE, subRegions |-> <<>>],
  [name |-> N_ReallocPadding, size |-> 10240, color |-> "bg-gray-500",
   isDynamic |-> FALSE, isPadding |-> TRUE, subRegions |-> <<>>],
  [name |-> N_RentEpoch, size |-> 8, color |-> "bg-teal-400",
   isDynamic |-> FALSE, isPadding |-> FALSE, subRegions |-> <<>>],
  [name |-> N_InstructionDataSize, size |-> 8, color |-> "bg-cyan-400",
   isDynamic |-> FALSE, isPadding |-> FALSE, subRegions |-> <<>>],
  [name |-> N_InstructionData, size |-> 32, color |-> "bg-lime-400",
   isDynamic |-> TRUE, isPadding |-> FALSE, subRegions |-> <<>>],
  [name |-> N_ProgramID, size |-> 32, color |-> "bg-amber-400",
   isDynamic |-> FALSE, isPadding |-> FALSE, subRegions |-> <<>>] >>

\* programInputRegions of the single-account variant:
\* PROGRAM_INPUT_REGIONS.map(region => "Account data" ? accountDataSize :
\*                                    "Instruction data" ? instructionDataSize : region)
SingleProgramInputRegionsOf(accountDataSize, instrSize) ==
  [i \in 1..Len(PROGRAM_INPUT_REGIONS) |->
     LET region == PROGRAM_INPUT_REGIONS[i]
     IN IF region.name = N_AccountData THEN [region EXCEPT !.size = accountDataSize]
        ELSE IF region.name = N_InstructionData THEN [region EXCEPT !.size = instrSize]
        ELSE region]

\* The sum of the sizes of regions lo..hi, as a running sum accumulates it
\* (split in halves to keep the evaluation shallow on layouts of 500 regions).
RECURSIVE SumSizes(_, _, _)
SumSizes(regions, lo, hi) ==
  IF lo > hi THEN 0
  ELSE IF lo = hi THEN regions[lo].size
  ELSE LET mid == (lo + hi) \div 2
       IN SumSizes(regions, lo, mid) + SumSizes(regions, mid + 1, hi)

\* The running offset before each region: offsets[k] is the value of the loop
\* variable (offset / currentOffset) when the scan reaches region k.
RECURSIVE OffsetsFrom(_, _, _, _)
OffsetsFrom(regions, lo, hi, base) ==
  IF lo > hi THEN <<>>
  ELSE IF lo = hi THEN <<base>>
  ELSE LET mid == (lo + hi) \div 2
       IN OffsetsFrom(regions, lo, mid, base)
          \o OffsetsFrom(regions, mid + 1, hi, base + SumSizes(regions, lo, mid))

OffsetsOf(regions) == OffsetsFrom(regions, 1, Len(regions), 0)

\* The first position of a non-empty set of positions (the scan returns at
\* the first hit).
First(hits) == CHOOSE k \in hits : \A j \in hits : k <= j

\* programInputRegions.reduce((sum, region) => sum + region.size, 0)
TotalSizeOf(regions) == SumSizes(regions, 1, Len(regions))

totalNamedRegionSize == TotalSizeOf(programInputRegions)

(***************************************************************************)
(* Row count.                                                              *)
(***************************************************************************)
\* Math.ceil(x / d) for an integer x of either sign and d > 0.
CeilDiv(x, d) == 0 - ((0 - x) \div d)

Max(a, b) == IF a >= b THEN a ELSE b
Min(a, b) == IF a <= b THEN a ELSE b

\* MaxRowsOf without the extra row.
MaxRowsOfNoSlack(total) == CeilDiv(total, BYTES_PER_ROW)

\* Math.ceil(totalNamedRegionSize / BYTES_PER_ROW) + 1
MaxRowsOf(total) == CeilDiv(total, BYTES_PER_ROW) + 1

maxRows == MaxRowsOf(totalNamedRegionSize)

\* end - start + 1 on three base-65536 digits (end >= start).
LimbBase == 65536

SectionWidth(section) ==
  LET e == section.end
      s == section.start
      d1 == e[1] - s[1]
      b1 == IF d1 < 0 THEN 1 ELSE 0
      d2 == e[2] - s[2] - b1
      b2 == IF d2 < 0 THEN 1 ELSE 0
      d3 == e[3] - s[3] - b2
      diff == << d1 + b1 * LimbBase, d2 + b2 * LimbBase, d3 >>
      a1 == diff[1] + 1
      c1 == a1 \div LimbBase
      a2 == diff[2] + c1
      c2 == a2 \div LimbBase
  IN << a1 % LimbBase, a2 % LimbBase, diff[3] + c2 >>

\* Math.ceil(width / BYTES_PER_ROW); BYTES_PER_ROW divides 65536.
WidthRows(w) ==
  w[3] * ((LimbBase \div BYTES_PER_ROW) * LimbBase)
  + w[2] * (LimbBase \div BYTES_PER_ROW)
  + CeilDiv(w[1], BYTES_PER_ROW)

TotalRowsOf(section, rows) ==
  IF section.name = PIP
  THEN Max(MIN_ROWS, rows)
  ELSE Max(MIN_ROWS, WidthRows(SectionWidth(section)))

totalRows == TotalRowsOf(selectedSection, maxRows)

(***************************************************************************)
(* Lookups in the layout.                                                  *)
(***************************************************************************)
\* getRegionOffset: the running offset at the first region with that name,
\* -1 when the scan ends without a match.
GetRegionOffsetIn(regions, regionName) ==
  LET hits == { k \in 1..Len(regions) : regions[k].name = regionName }
  IN IF hits = {} THEN -1 ELSE SumSizes(regions, 1, First(hits) - 1)

getRegionOffset(regionName) == GetRegionOffsetIn(programInputRegions, regionName)

\* getRegionForOffset: the first region whose [currentOffset, currentOffset +
\* size) holds the byte; null when the scan ends without one.
NoRegion == [name |-> Null, size |-> 0, color |-> "", isDynamic |-> FALSE,
             isPadding |-> FALSE, subRegions |-> <<>>]

GetRegionForOffsetIn(regions, byteOffset) ==
  LET offsets == OffsetsOf(regions)
      hits == { k \in 1..Len(regions) :
                  byteOffset >= offsets[k] /\ byteOffset < offsets[k] + regions[k].size }
  IN IF hits = {} THEN NoRegion ELSE regions[First(hits)]

getRegionForOffset(byteOffset) == GetRegionForOffsetIn(programInputRegions, byteOffset)

\* getRegionStartRow: the row of the first region with that name, row 0 when
\* the name is absent.
GetRegionStartRowIn(regions, regionName) ==
  LET hits == { k \in 1..Len(regions) : regions[k].name = regionName }
  IN IF hits = {} THEN 0
     ELSE SumSizes(regions, 1, First(hits) - 1) \div BYTES_PER_ROW

getRegionStartRow(regionName) == GetRegionStartRowIn(programInputRegions, regionName)

\* displayedRegions: the regions the legend lists for the selected view.
NumberText(p) == IF p.isNaN THEN <<"N", "a", "N">>
                 ELSE IF p.value < 0 THEN <<"-">> \o ToString(0 - p.value)
                 ELSE ToString(p.value)

DisplayedRegionsOf(view, regions) ==
  IF view = S_Program
  THEN SelectSeq(regions, LAMBDA region : ~StartsWith(region.name, S_Account))
  ELSE LET accountNumber == parseInt(Replace(view, S_AccountSp, <<>>))
           prefix == S_AccountSp \o NumberText(accountNumber) \o <<":">>
       IN SelectSeq(regions, LAMBDA region : StartsWith(region.name, prefix))

displayedRegions == DisplayedRegionsOf(selectedView, programInputRegions)

(***************************************************************************)
(* 64-bit little-endian encoding.  A BigInt is a sign and 65 magnitude     *)
(* bits, lowest first (bit 65 holds 2^64).                                 *)
(***************************************************************************)
RECURSIVE Pow2(_)
Pow2(k) == IF k = 0 THEN 1 ELSE 2 * Pow2(k - 1)

WordBits == 64

\* Adds 2^(k-1) to a bit sequence: the carry runs to the first 0 bit at or above k.
AddBit(bits, k) ==
  IF \E j \in k..Len(bits) : bits[j] = 0
  THEN LET z == CHOOSE j \in k..Len(bits) :
                  bits[j] = 0 /\ \A i \in k..(j - 1) : bits[i] = 1
       IN [i \in 1..Len(bits) |->
             IF i < k THEN bits[i] ELSE IF i < z THEN 0 ELSE IF i = z THEN 1 ELSE bits[i]]
  ELSE [i \in 1..Len(bits) |-> IF i < k THEN bits[i] ELSE 0]

\* BigInt(num) of an integer-valued number below 2^31 in magnitude.
BigIntOf(v) ==
  LET m == IF v < 0 THEN 0 - v ELSE v
  IN [neg |-> v < 0,
      mag |-> [i \in 1..(WordBits + 1) |->
                 IF i <= 31 THEN (m \div Pow2(i - 1)) % 2 ELSE 0]]

\* An integer written as its 8 base-256 digits, lowest first, as 65 bits.
BitsOfDigits(d) ==
  [i \in 1..(WordBits + 1) |->
     IF i <= WordBits THEN (d[((i - 1) \div 8) + 1] \div Pow2((i - 1) % 8)) % 2 ELSE 0]

\* The position of the highest 1 bit (0 when there is none).
TopBit(bits) ==
  IF \E i \in 1..Len(bits) : bits[i] = 1
  THEN CHOOSE i \in 1..Len(bits) : bits[i] = 1 /\ \A j \in (i + 1)..Len(bits) : bits[j] = 0
  ELSE 0

\* A number holds 53 significant bits: an integer with more is rounded to the
\* nearest representable value, ties to the even one.
MantissaBits == 53

NearestNumber(bits) ==
  LET s == TopBit(bits) - MantissaBits
  IN IF s <= 0 THEN bits
     ELSE LET half == bits[s] = 1
              sticky == \E i \in 1..(s - 1) : bits[i] = 1
              odd == bits[s + 1] = 1
              kept == [i \in 1..Len(bits) |-> IF i <= s THEN 0 ELSE bits[i]]
          IN IF half /\ (sticky \/ odd) THEN AddBit(kept, s + 1) ELSE kept

\* BigInt(num) where num: number holds the integer with digits d.
BigIntOfDigits(d) == [neg |-> FALSE, mag |-> NearestNumber(BitsOfDigits(d))]

\* Storing a BigInt in a BigUint64Array element or with setBigUint64: the value
\* modulo 2^64 (a negative value is stored as its two's complement).
BigUint64Bits(big) ==
  LET low == [i \in 1..WordBits |-> big.mag[i]]
  IN IF big.neg
     THEN AddBit([i \in 1..WordBits |-> 1 - low[i]], 1)
     ELSE low

\* The 8 bytes of the buffer, lowest address first (little-endian store).
BufferBytes(bits) ==
  [j \in 1..(WordBits \div 8) |->
     bits[8 * j - 7] + 2 * bits[8 * j - 6] + 4 * bits[8 * j - 5] + 8 * bits[8 * j - 4]
     + 16 * bits[8 * j - 3] + 32 * bits[8 * j - 2] + 64 * bits[8 * j - 1] + 128 * bits[8 * j]]

\* new Uint8Array(new BigUint64Array([BigInt(v)]).buffer): the bytes of the
\* element in memory order, which is lowest byte first on the little-endian
\* hosts the component runs on.
LittleEndianBytesOf(v) == BufferBytes(BigUint64Bits(BigIntOf(v)))

\* b.toString(16).padStart(2, '0') of a byte
ByteHex(b) == << HexDigits[(b \div 16) + 1], HexDigits[(b % 16) + 1] >>

\* toLittleEndian(num) of a BigInt-convertible number: the 8 hex pairs.
ToLittleEndianOfBig(big) ==
  LET bytes == BufferBytes(BigUint64Bits(big))
  IN [j \in 1..Len(bytes) |-> ByteHex(bytes[j])]

toLittleEndian(num) == ToLittleEndianOfBig(BigIntOf(num))

(***************************************************************************)
(* getMemoryValue: the two hex digits shown in a cell.                     *)
(***************************************************************************)
\* One branch of getMemoryValue: the field at `offset` holds `v`; <<>> when the
\* byte is outside [offset, offset + 8) and the code falls through.
FieldByte(index, offset, v) ==
  IF index >= offset /\ index < offset + 8
  THEN ByteHex(LittleEndianBytesOf(v)[(index - offset) + 1])
  ELSE <<>>

\* Filler with the modulus off by one.
FillerMod255(index) == ByteHex(index % 255)

\* (index % 256).toString(16).padStart(2, '0')
Filler(index) == ByteHex(index % 256)

GetMemoryValueIn(section, focus, n, sizes, instrSize, index) ==
  LET regions == ProgramInputRegionsOf(n, sizes, instrSize)
      branch ==
        IF section.name # PIP \/ focus = Null THEN <<>>
        ELSE IF Includes(focus, N_AccountDataSize)
        THEN LET parsed == parseInt(At(Split(At(Split(focus, ":"), 0), " "), 1))
                 accountIndex == parsed.value - 1
                 offset == IF parsed.isNaN THEN -1
                           ELSE GetRegionOffsetIn(regions,
                                  AccountRegionName(accountIndex, N_AccountDataSize))
                 v == IF parsed.isNaN THEN 32 ELSE AccountDataSizeOr32(sizes, accountIndex)
             IN FieldByte(index, offset, v)
        ELSE IF focus = N_InstructionDataSize
        THEN FieldByte(index, GetRegionOffsetIn(regions, N_InstructionDataSize), instrSize)
        ELSE IF focus = N_NumberOfAccounts
        THEN FieldByte(index, GetRegionOffsetIn(regions, N_NumberOfAccounts), n)
        ELSE <<>>
  IN IF branch # <<>> THEN branch ELSE Filler(index)

getMemoryValue(index) ==
  GetMemoryValueIn(selectedSection, focusedRegion, numberOfAccounts,
                   accountDataSizes, instructionDataSize, index)

(***************************************************************************)
(* getRegionColor: the class list of a cell, as the sequence of its        *)
(* space-separated classes ("bg-pink-400 opacity-50" is two classes).      *)
(***************************************************************************)
\* The inner loop over region.subRegions: the color of the first sub-region
\* whose span holds the byte; <<>> when the loop ends without a return (no
\* sub-regions, or the byte is past their sum).
SubRegionColor(region, currentOffset, byteOffset) ==
  LET subs == region.subRegions
      hits == { j \in 1..Len(subs) :
                  /\ byteOffset >= currentOffset + SumSizes(subs, 1, j - 1)
                  /\ byteOffset < currentOffset + SumSizes(subs, 1, j) }
  IN IF hits = {} THEN <<>> ELSE <<subs[First(hits)].color>>

\* getRegionColor: the scan for the owning region, then the precedence of the
\* focus tests.  if (focusedRegion) is false for null and for ''.
GetRegionColorIn(section, focus, regions, byteOffset) ==
  IF section.name # PIP THEN <<"bg-gray-800">>
  ELSE
    LET offsets == OffsetsOf(regions)
        hits == { k \in 1..Len(regions) :
                    byteOffset >= offsets[k] /\ byteOffset < offsets[k] + regions[k].size }
    IN IF hits = {} THEN <<"bg-gray-800">>
       ELSE
         LET region == regions[First(hits)]
             sub == SubRegionColor(region, offsets[First(hits)], byteOffset)
         IN IF focus # Null /\ focus # <<>>
            THEN IF Includes(focus, N_AccountDataSize) /\ Includes(region.name, N_AccountData)
                 THEN <<region.color, "opacity-50">>
                 ELSE IF focus = N_InstructionDataSize /\ region.name = N_InstructionData
                 THEN <<region.color, "opacity-50">>
                 ELSE IF focus = region.name /\ sub # <<>> THEN sub
                 ELSE IF focus = region.name THEN <<region.color>>
                 ELSE <<"bg-gray-700">>
            ELSE IF region.isPadding THEN <<region.color, "crosshatch">>
                 ELSE <<region.color>>

getRegionColor(byteOffset) ==
  GetRegionColorIn(selectedSection, focusedRegion, programInputRegions, byteOffset)

\* parseInt(hexValue, 16) of a two-digit cell text (Row, decimalValue).
HexVal(c) == (CHOOSE d \in 1..Len(HexDigits) : HexDigits[d] = c) - 1
ParseHex(h) == 16 * HexVal(h[1]) + HexVal(h[2])

(***************************************************************************)
(* The state after construction (the useState initial values).             *)
(***************************************************************************)
Init ==
  /\ selectedSection = MEMORY_SECTIONS[4]
  /\ focusedRegion = Null
  /\ accountDataSizes = <<32>>
  /\ instructionDataSize = 32
  /\ numberOfAccounts = 1
  /\ selectedView = S_Program
  /\ typedCount = Null
  /\ encoded = <<>>

(***************************************************************************)
(* What the handlers compute.                                              *)
(***************************************************************************)
\* NewNumberOfAccounts without the lower clamp.
NewNumberOfAccountsNoFloor(text) ==
  LET value == parseInt(text)
  IN IF value.isNaN THEN 0 ELSE Min(value.value, 64)

\* isNaN(value) ? 0 : Math.min(Math.max(value, 0), 64)
NewNumberOfAccounts(text) ==
  LET value == parseInt(text)
  IN IF value.isNaN THEN 0 ELSE Min(Max(value.value, 0), 64)

\* ResizedSizes that rebuilds the list instead of copying prev.
ResizedSizesRebuilt(prev, n) == [i \in 1..n |-> 32]

\* The updater of setAccountDataSizes in handleNumberOfAccountsChange:
\* push 32 while shorter than n, then slice(0, n).
ResizedSizes(prev, n) ==
  LET grown == [i \in 1..Max(Len(prev), n) |-> IF i <= Len(prev) THEN prev[i] ELSE 32]
  IN SubSeq(grown, 1, n)

\* isNaN(value) ? 0 : value
NewDataSize(text) ==
  LET value == parseInt(text)
  IN IF value.isNaN THEN 0 ELSE value.value

\* The legend is rendered in the "Program input parameters" section only and
\* lists one item (with its input field) per region of displayedRegions.
Shows(shown, regionName) == \E k \in 1..Len(shown) : shown[k].name = regionName

LegendShows(regionName) ==
  /\ selectedSection.name = PIP
  /\ Shows(displayedRegions, regionName)

\* `Account ${clickedRegion.name.split(':')[0].split(' ')[1]}` or "Program"
ViewOfRegion(name) ==
  IF StartsWith(name, S_Account)
  THEN S_AccountSp \o At(Split(At(Split(name, ":"), 0), " "), 1)
  ELSE S_Program

\* ToggledFocus that never clears the focus.
ToggledFocusAlways(prev, name) == name

\* setFocusedRegion(prev => prev === clickedRegion.name ? null : clickedRegion.name)
ToggledFocus(prev, name) == IF prev = name THEN Null ELSE name

(***************************************************************************)
(* The handlers.  A handler is enabled when the element that delivers its  *)
(* event is rendered: the section buttons and the cells always, the legend *)
(* (view select, accordion items and their input fields) only in the       *)
(* "Program input parameters" section, an item only when its region is in  *)
(* displayedRegions.  Which accordion item is open is no guard: no handler *)
(* reads it, and setSelectedView / handleMemoryClick change the listed     *)
(* items without touching focusedRegion.  setNumberOfAccounts and          *)
(* setAccountDataSizes of one handler are applied in one render.           *)
(***************************************************************************)
\* onClick of a section button: setSelectedSection(section)
SelectSection(i) ==
  /\ selectedSection' = MEMORY_SECTIONS[i]
  /\ UNCHANGED <<focusedRegion, accountDataSizes, instructionDataSize,
                 numberOfAccounts, selectedView, typedCount, encoded>>

\* onValueChange of the legend's Select, whose items are "Program" and
\* "Account 1" .. "Account numberOfAccounts": setSelectedView(value)
SelectView(i) ==
  /\ selectedSection.name = PIP
  /\ i <= numberOfAccounts
  /\ selectedView' = IF i = 0 THEN S_Program ELSE S_AccountSp \o ToString(i)
  /\ UNCHANGED <<selectedSection, focusedRegion, accountDataSizes,
                 instructionDataSize, numberOfAccounts, typedCount, encoded>>

\* handleAccordionChange(value): value is the name of a listed item, or ''.
\* (The scroll to getRegionStartRow(value) changes no state of the component.)
AccordionChange(value) ==
  /\ selectedSection.name = PIP
  /\ value = <<>> \/ LegendShows(value)
  /\ focusedRegion' = IF value = <<>> THEN Null ELSE value
  /\ UNCHANGED <<selectedSection, accountDataSizes, instructionDataSize,
                 numberOfAccounts, selectedView, typedCount, encoded>>

\* handleMemoryClick(byteOffset) on a cell of a rendered row.
MemoryClick(byteOffset) ==
  /\ byteOffset \div COLS < totalRows
  /\ LET clickedRegion == getRegionForOffset(byteOffset)
     IN IF clickedRegion # NoRegion
        THEN /\ selectedView' = ViewOfRegion(clickedRegion.name)
             /\ focusedRegion' = ToggledFocus(focusedRegion, clickedRegion.name)
        ELSE UNCHANGED <<selectedView, focusedRegion>>
  /\ UNCHANGED <<selectedSection, accountDataSizes, instructionDataSize,
                 numberOfAccounts, typedCount, encoded>>

\* AccountDataSizeChange that fills the whole list with the new value.
AccountDataSizeChangeFill(text, regionName) ==
  /\ Includes(regionName, N_AccountDataSize)
  /\ LegendShows(regionName)
  /\ LET accountIndex == parseInt(At(Split(regionName, " "), 1)).value - 1
     IN /\ accountIndex >= 0 /\ accountIndex < Len(accountDataSizes)
        /\ accountDataSizes' = [i \in 1..Len(accountDataSizes) |-> NewDataSize(text)]
  /\ UNCHANGED <<selectedSection, focusedRegion, instructionDataSize,
                 numberOfAccounts, selectedView, typedCount, encoded>>

\* handleAccountDataSizeChange(e, accountIndex) from the input of the item
\* "Account k: Account data size"; accountIndex = parseInt(name.split(' ')[1]) - 1.
AccountDataSizeChange(text, regionName) ==
  /\ Includes(regionName, N_AccountDataSize)
  /\ LegendShows(regionName)
  /\ LET accountIndex == parseInt(At(Split(regionName, " "), 1)).value - 1
     IN /\ accountIndex >= 0 /\ accountIndex < Len(accountDataSizes)
        /\ accountDataSizes' =
             [accountDataSizes EXCEPT ![accountIndex + 1] = NewDataSize(text)]
  /\ UNCHANGED <<selectedSection, focusedRegion, instructionDataSize,
                 numberOfAccounts, selectedView, typedCount, encoded>>

\* handleInstructionDataSizeChange(e) from the input of "Instruction data size".
InstructionDataSizeChange(text) ==
  /\ LegendShows(N_InstructionDataSize)
  /\ instructionDataSize' = NewDataSize(text)
  /\ UNCHANGED <<selectedSection, focusedRegion, accountDataSizes,
                 numberOfAccounts, selectedView, typedCount, encoded>>

\* handleNumberOfAccountsChange(e) from the input of "Number of accounts".
NumberOfAccountsChange(text) ==
  /\ LegendShows(N_NumberOfAccounts)
  /\ LET newNumberOfAccounts == NewNumberOfAccounts(text)
     IN /\ numberOfAccounts' = newNumberOfAccounts
        /\ accountDataSizes' = ResizedSizes(accountDataSizes, newNumberOfAccounts)
  /\ typedCount' = text
  /\ UNCHANGED <<selectedSection, focusedRegion, instructionDataSize, selectedView, encoded>>

(***************************************************************************)
(* Inputs.                                                                 *)
(***************************************************************************)
\* The size fields of units 1..MaxUnit.
SizeFieldNames == { AccountRegionName(i, N_AccountDataSize) : i \in 0..(MaxUnit - 1) }

\* The legend items that are opened: the three integer-backed fields, a data
\* region, a region with sub-regions and a padding region.
AccordionNames ==
  { N_NumberOfAccounts, N_InstructionDataSize }
  \cup { AccountRegionName(i, b) :
           i \in 0..(MaxUnit - 1), b \in { N_AccountDataSize, N_AccountData, N_AccountFlags } }

\* Byte offsets of the cells that are clicked.
ClickOffsets == { 0, 88, 100, 10390 }

\* Texts typed into the "Number of accounts" field.
CountTexts == { <<>>, <<"1">>, <<"2">>, <<"3">> }

\* Texts typed into a data-size field.
SizeTexts == { <<>>, <<"3", "0", "0">> }

\* toLittleEndian(num) evaluated on the integer whose base-256 digits are
\* encoded.num.
ToLittleEndianCall ==
  /\ encoded # <<>>
  /\ encoded.text = <<>>
  /\ encoded' = [encoded EXCEPT !.text = ToLittleEndianOfBig(BigIntOfDigits(encoded.num))]
  /\ UNCHANGED <<selectedSection, focusedRegion, accountDataSizes,
                 instructionDataSize, numberOfAccounts, selectedView, typedCount>>

(***************************************************************************)
(* The component: every handler, on a small set of inputs.                 *)
(***************************************************************************)
Next ==
  \/ \E i \in 1..Len(MEMORY_SECTIONS) : SelectSection(i)
  \/ \E i \in 0..MaxUnit : SelectView(i)
  \/ \E v \in AccordionNames \cup {<<>>} : AccordionChange(v)
  \/ \E b \in ClickOffsets : MemoryClick(b)
  \/ \E t \in SizeTexts, r \in SizeFieldNames : AccountDataSizeChange(t, r)
  \/ \E t \in SizeTexts : InstructionDataSizeChange(t)
  \/ \E t \in CountTexts : NumberOfAccountsChange(t)

Spec == Init /\ [][Next]_vars

(***************************************************************************)
(* The layout parameters alone: the three edits and the legend view that   *)
(* exposes the size fields, on a wider set of texts.                       *)
(***************************************************************************)
LayoutCountTexts == { <<>>, <<"x">>, <<"-", "1">>, <<"0">>, <<"1">>, <<"2">>,
                      <<"3">>, <<"5">> }

LayoutSizeTexts == { <<>>, <<"-", "3">>, <<"-", "1", "7">>, <<"7">>, <<"3", "0", "0">> }

NextLayout ==
  \/ \E i \in 0..MaxUnit : SelectView(i)
  \/ \E t \in LayoutSizeTexts, r \in SizeFieldNames : AccountDataSizeChange(t, r)
  \/ \E t \in LayoutSizeTexts : InstructionDataSizeChange(t)
  \/ \E t \in LayoutCountTexts : NumberOfAccountsChange(t)

SpecLayout == Init /\ [][NextLayout]_vars

(***************************************************************************)
(* The unit-count field on every text from "-2" to MaxTyped and on text    *)
(* that is no number.                                                      *)
(***************************************************************************)
MaxTyped == 66

\* The decimal text of an integer.
DecimalText(n) == IF n < 0 THEN <<"-">> \o ToString(0 - n) ELSE ToString(n)

TypedIntegers == ((0 - 2)..MaxTyped) \cup { 999 }

NonNumericTexts == { <<>>, <<"x">>, <<"-">>, <<"a", "b", "c">> }

TypedCounts == { DecimalText(n) : n \in TypedIntegers } \cup NonNumericTexts

NextCount ==
  \/ \E t \in TypedCounts : NumberOfAccountsChange(t)
  \/ \E t \in SizeTexts : InstructionDataSizeChange(t)

SpecCount == Init /\ [][NextCount]_vars

(***************************************************************************)
(* The cells: clicks on a wider set of bytes, in and out of the "Program   *)
(* input parameters" section, between changes of the unit count, of the    *)
(* trailing size and of the legend view.                                   *)
(***************************************************************************)
\* Bytes of header regions and of regions of units 1..3; for a smaller unit
\* count some of them are past the layout.
ClickBytes == ClickOffsets \cup { 8, 10376, 20760 }

\* The "Stack data" and the "Program input parameters" sections.
ClickSections == { 2, 4 }

NextClick ==
  \/ \E b \in ClickBytes : MemoryClick(b)
  \/ \E i \in ClickSections : SelectSection(i)
  \/ \E i \in 0..MaxUnit : SelectView(i)
  \/ \E t \in CountTexts : NumberOfAccountsChange(t)
  \/ \E t \in SizeTexts : InstructionDataSizeChange(t)

SpecClick == Init /\ [][NextClick]_vars

(***************************************************************************)
(* toLittleEndian on integers up to 2^64 - 1.                              *)
(***************************************************************************)
EncodedBytes == { 0, 1, 8, 255 }

EncodedInputs ==
  { <<8, 7, 6, 5, 4, 3, 2, 1>> }
  \cup { <<a, b, 0, 0, 0, 0, c, d>> : a \in EncodedBytes, b \in EncodedBytes,
                                      c \in EncodedBytes, d \in EncodedBytes }

InitEncode ==
  /\ selectedSection = MEMORY_SECTIONS[4]
  /\ focusedRegion = Null
  /\ accountDataSizes = <<32>>
  /\ instructionDataSize = 32
  /\ numberOfAccounts = 1
  /\ selectedView = S_Program
  /\ typedCount = Null
  /\ encoded \in { [num |-> d, text |-> <<>>] : d \in EncodedInputs }

NextEncode == ToLittleEndianCall

SpecEncode == InitEncode /\ [][NextEncode]_vars

(***************************************************************************)
(* Properties of the layout.                                               *)
(***************************************************************************)
TypeOK ==
  /\ \E i \in 1..Len(MEMORY_SECTIONS) : selectedSection = MEMORY_SECTIONS[i]
  /\ numberOfAccounts \in 0..64
  /\ Len(accountDataSizes) = numberOfAccounts
  /\ instructionDataSize \in Int

\* Whether the layout holds a region of that name.
InLayout(regionName) ==
  \E k \in 1..Len(programInputRegions) : programInputRegions[k].name = regionName

\* C1: in every state reached by parameter edits the layout has no gap and no
\* overlap: the offset of each region is the offset of the region before it
\* plus that region's size, and the offsets never decrease along the layout.
C1_GapFreeMonotone ==
  LET regions == programInputRegions
  IN \A i \in 1..(Len(regions) - 1) :
       /\ getRegionOffset(regions[i + 1].name)
            = getRegionOffset(regions[i].name) + regions[i].size
       /\ getRegionOffset(regions[i + 1].name) >= getRegionOffset(regions[i].name)

\* The regions of unit k (1-based) in a layout: those named "Account k: ...".
UnitRegions(regions, k) ==
  SelectSeq(regions, LAMBDA region :
              StartsWith(region.name, S_AccountSp \o ToString(k) \o <<":", " ">>))

\* The size of the per-unit template with a data size substituted.
TemplateSize(dataSize) ==
  SumSizes(ACCOUNT_REGIONS, 1, Len(ACCOUNT_REGIONS))
    - ACCOUNT_REGIONS[CHOOSE j \in 1..Len(ACCOUNT_REGIONS) :
                        ACCOUNT_REGIONS[j].name = N_AccountData].size
    + dataSize

RECURSIVE SumTemplates(_, _)
SumTemplates(sizes, k) ==
  IF k = 0 THEN 0 ELSE SumTemplates(sizes, k - 1) + TemplateSize(sizes[k])

\* C2: the layout holds exactly numberOfAccounts instantiations of the per-unit
\* template, all region names are pairwise distinct, and the total size is the
\* size of the non-repeated regions (with the trailing size substituted) plus,
\* for each unit, the template size with that unit's configured size.
C2_ExpandCountNamesTotal ==
  LET regions == programInputRegions
  IN /\ Len(regions) = Len(PROGRAM_REGIONS) + numberOfAccounts * Len(ACCOUNT_REGIONS)
     /\ \A k \in 1..numberOfAccounts :
          Len(UnitRegions(regions, k)) = Len(ACCOUNT_REGIONS)
     /\ \A i, j \in 1..Len(regions) : i # j => regions[i].name # regions[j].name
     /\ totalNamedRegionSize
          = 8 + 8 + instructionDataSize + 32
            + SumTemplates(accountDataSizes, numberOfAccounts)

\* The size of the region of that name in the layout.
SizeOfRegion(regionName) ==
  programInputRegions[CHOOSE k \in 1..Len(programInputRegions) :
                        programInputRegions[k].name = regionName].size

\* C3: each dynamic data region has the size of the parameter that drives it,
\* for every configured value including 0: unit k's data region has unit k's
\* configured size and the trailing data region has the trailing size.
C3_DynamicSizeFollowsParameter ==
  /\ \A k \in 1..numberOfAccounts :
       SizeOfRegion(AccountRegionName(k - 1, N_AccountData)) = accountDataSizes[k]
  /\ SizeOfRegion(N_InstructionData) = instructionDataSize

(***************************************************************************)
(* Properties of the handlers.                                             *)
(***************************************************************************)
\* The unit count the text of the field stands for: an integer clamped to
\* [0, 64], 0 for text that is no number.
ClampedCountOf(text) ==
  IF text \in NonNumericTexts THEN 0
  ELSE LET n == CHOOSE m \in TypedIntegers : DecimalText(m) = text
       IN IF n < 0 THEN 0 ELSE IF n > 64 THEN 64 ELSE n

\* C4: after any input to the unit-count field the unit count is an integer in
\* [0, 64]: a value below 0 gives 0, a value above 64 gives 64, text that is
\* no number gives 0, any other integer gives itself.
C4_CountClamped ==
  /\ numberOfAccounts \in 0..64
  /\ typedCount # Null => numberOfAccounts = ClampedCountOf(typedCount)

C4_Witness == typedCount = <<"6", "5">> /\ numberOfAccounts = 64

\* C5: a change of the unit count from m to n leaves a size list of exactly n
\* entries, the entries below min(m, n) keep their values and the entries from
\* m up to n - 1 are the default 32 (so 2 -> 5 -> 2 gives back the two values).
C5_ResizePreserves ==
  [][ /\ Len(accountDataSizes') = numberOfAccounts'
      /\ (numberOfAccounts' # numberOfAccounts \/ typedCount' # typedCount) =>
           /\ \A i \in 1..Min(numberOfAccounts, numberOfAccounts') :
                accountDataSizes'[i] = accountDataSizes[i]
           /\ \A i \in (numberOfAccounts + 1)..numberOfAccounts' :
                accountDataSizes'[i] = 32 ]_vars

C5_Witness ==
  /\ numberOfAccounts = 5
  /\ typedCount = <<"5">>
  /\ accountDataSizes = <<300, 7, 32, 32, 32>>

\* C6: the row count is max(16, ceil(total / 16) + 1) in the "Program input
\* parameters" section (654 for 10448 bytes, 16 for 0 bytes) and, with no
\* extra row, 268435456 in each of the other three sections whatever the
\* layout parameters are.
C6_RowCount ==
  /\ selectedSection.name = PIP =>
       totalRows = Max(16, ((totalNamedRegionSize + 15) \div 16) + 1)
  /\ selectedSection.name # PIP => totalRows = 268435456
  /\ \A i \in 1..3 : \A rows \in {1, 16, 654, 100000} :
       TotalRowsOf(MEMORY_SECTIONS[i], rows) = 268435456
  /\ TotalRowsOf(MEMORY_SECTIONS[4], MaxRowsOf(10448)) = 654
  /\ TotalRowsOf(MEMORY_SECTIONS[4], MaxRowsOf(0)) = 16

C6_Witness ==
  /\ selectedSection.name = "Stack data"
  /\ numberOfAccounts = 2
  /\ accountDataSizes[2] = 300
  /\ totalRows = 268435456

(***************************************************************************)
(* Properties of the cell values.                                          *)
(***************************************************************************)
\* Byte j of the little-endian encoding of v: floor(v / 256^j) mod 256.
RECURSIVE ByteOf(_, _)
ByteOf(v, j) == IF j = 0 THEN v % 256 ELSE ByteOf(v \div 256, j - 1)

\* The cell values of the 8 bytes of the field `name` spell out v.
FieldSpells(name, v) ==
  \A j \in 0..7 : ParseHex(getMemoryValue(getRegionOffset(name) + j)) = ByteOf(v, j)

\* C7: in the "Program input parameters" section, with an integer-backed field
\* focused (the unit count, the size field of an existing unit, the trailing
\* size field), the 8 cells of the field show the little-endian bytes of the
\* configured value of its parameter, for every configured value.
C7_FocusedFieldShowsValue ==
  selectedSection.name = PIP =>
    /\ focusedRegion = N_NumberOfAccounts =>
         FieldSpells(N_NumberOfAccounts, numberOfAccounts)
    /\ focusedRegion = N_InstructionDataSize =>
         FieldSpells(N_InstructionDataSize, instructionDataSize)
    /\ \A k \in 1..numberOfAccounts :
         focusedRegion = AccountRegionName(k - 1, N_AccountDataSize) =>
           FieldSpells(focusedRegion, accountDataSizes[k])

\* The byte offsets that are probed.
ProbeOffsets == { 0, 1, 7, 8, 87, 88, 95, 96, 255, 256, 257, 10383, 10384, 100000 }

\* The focused region is an integer-backed field of the layout.
FocusIsIntegerField ==
  \/ focusedRegion \in { N_NumberOfAccounts, N_InstructionDataSize }
  \/ \E k \in 1..numberOfAccounts :
       focusedRegion = AccountRegionName(k - 1, N_AccountDataSize)

\* C8: the cell value is byteOffset mod 256 when no region is focused, when the
\* section is not "Program input parameters", and when the byte is outside the
\* 8 bytes of the focused integer-backed field.
C8_FillerOutsideFocusedField ==
  \A index \in ProbeOffsets :
    ( \/ focusedRegion = Null
      \/ selectedSection.name # PIP
      \/ /\ FocusIsIntegerField
         /\ \/ index < getRegionOffset(focusedRegion)
            \/ index >= getRegionOffset(focusedRegion) + 8 )
    => ParseHex(getMemoryValue(index)) = index % 256

C8_Witness ==
  /\ selectedSection.name = PIP
  /\ numberOfAccounts = 2
  /\ focusedRegion = AccountRegionName(1, N_AccountDataSize)
  /\ accountDataSizes[2] = 300

C10_LittleEndianBytes ==
  (encoded # <<>> /\ encoded.text # <<>>) =>
    /\ Len(encoded.text) = 8
    /\ \A i \in 1..8 : ParseHex(encoded.text[i]) = encoded.num[i]

(***************************************************************************)
(* Properties of the sizes.                                                *)
(***************************************************************************)
\* C11: after any sequence of parameter inputs (negative and non-numeric texts
\* for the two dynamic sizes included) every region of the layout has a size
\* >= 0 and the total layout size is >= 0.
C11_SizesNonNegative ==
  /\ \A k \in 1..Len(programInputRegions) : programInputRegions[k].size >= 0
  /\ totalNamedRegionSize >= 0

(***************************************************************************)
(* Properties of the cell colors.                                          *)
(***************************************************************************)
\* The first and the last byte of region i of the layout (none when it is empty).
EdgeBytes(i) ==
  LET regions == programInputRegions
      start == OffsetsOf(regions)[i]
  IN IF regions[i].size > 0 THEN { start, start + regions[i].size - 1 } ELSE {}

\* The name of the data region a dynamic-size field drives ("" for any other name).
DataFieldOf(sizeField) ==
  IF sizeField = N_InstructionDataSize THEN N_InstructionData
  ELSE IF \E k \in 1..64 : sizeField = S_AccountSp \o ToString(k) \o <<":", " ">> \o N_AccountDataSize
  THEN LET k == CHOOSE u \in 1..64 :
                  sizeField = S_AccountSp \o ToString(u) \o <<":", " ">> \o N_AccountDataSize
       IN S_AccountSp \o ToString(k) \o <<":", " ">> \o N_AccountData
  ELSE <<>>

\* C12: with the size field of an existing unit k (or the trailing size field)
\* focused, the bytes of the data region it drives have that region's color at
\* reduced emphasis, the bytes of the focused size field have its own color,
\* and the bytes of every other region (other units' data and size regions
\* included) have the dimmed tag.
C12_ReducedEmphasisOnlyOnDataField ==
  (selectedSection.name = PIP /\ InLayout(focusedRegion) /\ DataFieldOf(focusedRegion) # <<>>) =>
    \A i \in 1..Len(programInputRegions) : \A b \in EdgeBytes(i) :
      LET region == programInputRegions[i]
      IN getRegionColor(b) =
           IF region.name = DataFieldOf(focusedRegion) THEN <<region.color, "opacity-50">>
           ELSE IF region.name = focusedRegion THEN <<region.color>>
           ELSE <<"bg-gray-700">>

\* The color the catalog gives to byte rel (0-based) of a region with sub-regions.
SubColorOf(region, rel) ==
  LET subs == region.subRegions
      j == CHOOSE x \in 1..Len(subs) :
             SumSizes(subs, 1, x - 1) <= rel /\ rel < SumSizes(subs, 1, x)
  IN <<subs[j].color>>

\* C13: with a region of the layout focused, every byte of a focused region that
\* has sub-regions has the color of the sub-region whose span holds the byte
\* (the sub-region sizes sum to the region size); every byte of a focused
\* region without sub-regions has the region's own color; every byte of a
\* region that is neither the focused one nor the data field it drives has the
\* dimmed tag.
C13_SubRegionColors ==
  (selectedSection.name = PIP /\ InLayout(focusedRegion)) =>
    \A i \in 1..Len(programInputRegions) :
      LET region == programInputRegions[i]
          start == OffsetsOf(programInputRegions)[i]
      IN IF region.name = focusedRegion /\ region.subRegions # <<>>
         THEN /\ SumSizes(region.subRegions, 1, Len(region.subRegions)) = region.size
              /\ \A b \in start..(start + region.size - 1) :
                   getRegionColor(b) = SubColorOf(region, b - start)
         ELSE IF region.name = focusedRegion
         THEN \A b \in EdgeBytes(i) : getRegionColor(b) = <<region.color>>
         ELSE IF region.name # DataFieldOf(focusedRegion)
         THEN \A b \in EdgeBytes(i) : getRegionColor(b) = <<"bg-gray-700">>
         ELSE TRUE

(***************************************************************************)
(* Properties of the lookups.                                              *)
(***************************************************************************)
\* Names that are probed: "Account k: ..." of units that may be absent, a name
\* that is the suffix of a region name, and the empty name.
AbsentCandidates ==
  { AccountRegionName(i, b) : i \in 0..6, b \in { N_AccountFlags, N_RentEpoch } }
  \cup { N_AccountData, N_AccountDataSize, <<>> }

\* C14: getRegionOffset(name) is the sum of the sizes of the regions before the
\* first region of that name, it is -1 if and only if the layout has no region
\* of that name, and -1 is never the offset of a region that is present.
C14_OffsetOrNotFound ==
  LET regions == programInputRegions
      offsets == OffsetsOf(regions)
      names == { regions[k].name : k \in 1..Len(regions) } \cup AbsentCandidates
  IN \A name \in names :
       LET at == { k \in 1..Len(regions) : regions[k].name = name }
           found == GetRegionOffsetIn(regions, name)
       IN /\ at # {} => \E k \in at : (\A j \in at : k <= j) /\ found = offsets[k]
          /\ (found = 0 - 1) <=> (at = {})

\* C15: getRegionForOffset(b) is, for 0 <= b < total layout size, the one region
\* whose span [offset, offset + size) holds b; it is null for every b at or
\* past the total layout size; it is never a region of size 0.
C15_RegionAtUnique ==
  LET regions == programInputRegions
      offsets == OffsetsOf(regions)
      total == TotalSizeOf(regions)
      probes == ProbeOffsets
                \cup { offsets[k] : k \in 1..Len(regions) }
                \cup { offsets[k] - 1 : k \in 1..Len(regions) }
                \cup { total - 1, total, total + 1 }
  IN \A b \in { x \in probes : x >= 0 } :
       LET holding == { k \in 1..Len(regions) :
                          offsets[k] <= b /\ b < offsets[k] + regions[k].size }
           found == GetRegionForOffsetIn(regions, b)
       IN /\ b < total => /\ Cardinality(holding) = 1
                          /\ \E k \in holding : found = regions[k]
          /\ b >= total => found = NoRegion
          /\ found # NoRegion => found.size # 0

(***************************************************************************)
(* Properties of the order of the layout.                                  *)
(***************************************************************************)
\* C16: for every unit count n the layout is, in this order: the unit-count
\* field; for units 1, 2, ..., n in increasing order the regions of the unit in
\* template order; the trailing size field, the trailing data field and the
\* program identifier.  So the unit-count field is at offset 0 and the program
\* identifier is the last region.
C16_ExpandOrder ==
  LET regions == programInputRegions
      n == numberOfAccounts
      t == Len(ACCOUNT_REGIONS)
  IN /\ Len(regions) = 1 + n * t + 3
     /\ regions[1].name = N_NumberOfAccounts
     /\ \A u \in 1..n : \A j \in 1..t :
          regions[1 + (u - 1) * t + j].name
            = S_AccountSp \o ToString(u) \o <<":", " ">> \o ACCOUNT_REGIONS[j].name
     /\ regions[n * t + 2].name = N_InstructionDataSize
     /\ regions[n * t + 3].name = N_InstructionData
     /\ regions[n * t + 4].name = N_ProgramID
     /\ GetRegionOffsetIn(regions, N_NumberOfAccounts) = 0
     /\ regions[Len(regions)].name = N_ProgramID

C16_Witness ==
  /\ numberOfAccounts = 64
  /\ programInputRegions[506].name = AccountRegionName(63, N_AccountFlags)
  /\ programInputRegions[516].name = N_ProgramID

(***************************************************************************)
(* The two variants at unit count 1.                                       *)
(***************************************************************************)
\* C17: with unit count 1 and the same configured sizes (the unit's and the
\* trailing one, 0 included) the multi-account variant and the single-account
\* variant give the same sequence of region sizes and offsets, the same total
\* layout size and the same row count in every section.
C17_SingleUnitEquivalence ==
  numberOfAccounts = 1 =>
    LET multi == programInputRegions
        single == SingleProgramInputRegionsOf(accountDataSizes[1], instructionDataSize)
    IN /\ Len(multi) = Len(single)
       /\ \A i \in 1..Len(single) : multi[i].size = single[i].size
       /\ OffsetsOf(multi) = OffsetsOf(single)
       /\ TotalSizeOf(multi) = TotalSizeOf(single)
       /\ \A s \in 1..Len(MEMORY_SECTIONS) :
            TotalRowsOf(MEMORY_SECTIONS[s], MaxRowsOf(TotalSizeOf(multi)))
              = TotalRowsOf(MEMORY_SECTIONS[s], MaxRowsOf(TotalSizeOf(single)))

DataRegionIndex(k) == 1 + (k - 1) * Len(ACCOUNT_REGIONS) + 6

\* C19: an edit of a unit's size (a step that changes the size list and not the
\* unit count) changes one entry k of the list only; the unit count, the
\* trailing size, the focused region and the selected section are unchanged;
\* the offsets of the regions up to and including unit k's data region are
\* unchanged and the offset of every later region moves by exactly the change
\* of the size of unit k's data region.
C19_SizeEditFrame ==
  [][ (accountDataSizes' # accountDataSizes /\ numberOfAccounts' = numberOfAccounts) =>
        \E before \in { ProgramInputRegionsOf(numberOfAccounts, accountDataSizes,
                                               instructionDataSize) } :
        \E after \in { ProgramInputRegionsOf(numberOfAccounts', accountDataSizes',
                                              instructionDataSize') } :
        \E offsetsBefore \in { OffsetsOf(before) } :
        \E offsetsAfter \in { OffsetsOf(after) } :
        \E k \in 1..numberOfAccounts :
          LET d == DataRegionIndex(k)
              delta == after[d].size - before[d].size
          IN /\ accountDataSizes'[k] # accountDataSizes[k]
             /\ Len(accountDataSizes') = Len(accountDataSizes)
             /\ \A j \in 1..Len(accountDataSizes) :
                  j # k => accountDataSizes'[j] = accountDataSizes[j]
             /\ UNCHANGED <<numberOfAccounts, instructionDataSize, focusedRegion,
                            selectedSection>>
             /\ before[d].name
                  = S_AccountSp \o ToString(k) \o <<":", " ">> \o N_AccountData
             /\ Len(after) = Len(before)
             /\ \A i \in 1..Len(before) :
                  offsetsAfter[i] = offsetsBefore[i] + (IF i <= d THEN 0 ELSE delta)
    ]_vars

C19_Witness ==
  /\ numberOfAccounts = 3
  /\ accountDataSizes = <<32, 300, 32>>
  /\ GetRegionOffsetIn(programInputRegions, AccountRegionName(2, N_AccountFlags))
       = 8 + 10368 + 10636

\* C20: a click on the cell at byte offset b changes the state only when a
\* region R holds b: the focus becomes R's name, or null when R was already
\* focused (a second click on the same region gives back the state without
\* focus), and the legend view becomes "Account k" when R is a region of unit k
\* and "Program" otherwise; a click on a byte that no region holds changes
\* neither the focus nor the view.
C20_ClickTogglesFocus ==
  [][ \A b \in ClickBytes :
        (UNCHANGED <<numberOfAccounts, accountDataSizes, instructionDataSize,
                     selectedSection>> /\ MemoryClick(b)) =>
        \E regions \in { programInputRegions } :
        \E offsets \in { OffsetsOf(regions) } :
          LET holding == { k \in 1..Len(regions) :
                             offsets[k] <= b /\ b < offsets[k] + regions[k].size }
              t == Len(ACCOUNT_REGIONS)
          IN /\ UNCHANGED <<selectedSection, accountDataSizes, instructionDataSize,
                            numberOfAccounts>>
             /\ holding = {} => UNCHANGED <<focusedRegion, selectedView>>
             /\ holding # {} =>
                  \E k \in holding :
                    /\ \A j \in holding : k <= j
                    /\ focusedRegion' = IF focusedRegion = regions[k].name THEN Null
                                        ELSE regions[k].name
                    /\ selectedView' =
                         IF k >= 2 /\ k <= 1 + numberOfAccounts * t
                         THEN S_AccountSp \o ToString(((k - 2) \div t) + 1)
                         ELSE S_Program
    ]_vars

C20_Witness ==
  /\ focusedRegion = AccountRegionName(1, N_PublicKeys)
  /\ selectedView = S_AccountSp \o <<"2">>

====
